---- MODULE Spec2Model ----
(***************************************************************************)
(* Model of bi-service's route execution pipeline: the Route step-chain    *)
(* builder (lib/express/route.js, src/unnamed/part_001), the compiled      *)
(* callable returned by Route.prototype.build, and the App route registry  *)
(* (src/lib/express/app.js).                                               *)
(***************************************************************************)
EXTENDS Integers, Sequences, FiniteSets, TLC

VARIABLES
    route,      \* the Route object under declaration: options, steps, $reqDataParser
    appCfg,     \* App config: the content types of the `bodyParser` option
    built,      \* TRUE once Route.prototype.build returned the callable
    thrown,     \* what the last declaration call threw ("none" when it returned)
    lastOp,     \* name of the last declaration call
    reqs,       \* per request: the state of one execution of the compiled callable
    app,        \* the App: routers and the routes registry indexed by uid
    emitter,    \* the App as event emitter: its listeners per event
    eh          \* the errorHandler middleware at work on one failed request

vars == <<route, appCfg, built, thrown, lastOp, reqs, app, emitter, eh>>

(***************************************************************************)
(* Bounds of the model.                                                    *)
(***************************************************************************)
MaxSteps == 2        \* a step is declared only while route.steps is shorter
MaxCatch == 2        \* catch entries declared on one route
MaxRoutes == 3       \* buildRoute calls on the App
MaxRouters == 2      \* buildRouter calls on the App
MaxStatusCalls == 4  \* $setStatus calls on the App, the constructor's included
MaxDeclared == 4     \* respondsWith calls on one route, the constructor's included

(***************************************************************************)
(* Values that flow through the promise chain.                             *)
(*   k   : "undef" | "val" | "resp" (a Response) | "err" (a rejection)     *)
(*   cls : class of a thrown value ("NonError" = a value that is no Error) *)
(*   by  : the handler invocation that produced it <<kind, step, entry>>   *)
(*   msg : what an error's message names (<<>> when nothing is modelled)   *)
(***************************************************************************)
NoOrigin == <<"-", 0, 0>>
Value(k, cls, by) == [k |-> k, cls |-> cls, by |-> by, msg |-> <<>>]
Undefined == Value("undef", "-", NoOrigin)
ReqArg == Value("req", "-", NoOrigin)
ResArg == Value("res", "-", NoOrigin)   \* Response.wrap(res, self)

\* prototype chain of the error constructors
ParentClass(c) ==
    CASE c = "TypeError" -> "Error"
      [] c = "RouteError" -> "Error"
      [] c = "RequestError" -> "Error"
      [] c = "ServiceError" -> "RequestError"
      [] c = "ValidationError" -> "RequestError"
      [] OTHER -> "-"

RECURSIVE InstanceOf(_, _)
\* `e instanceof F` for a value of class c
InstanceOf(c, F) ==
    IF c = "-" \/ c = "NonError" THEN FALSE
    ELSE IF c = F THEN TRUE
    ELSE InstanceOf(ParentClass(c), F)

\* classes of the values a step, a catch handler or a Response callback may throw
ThrowClasses == {"Error", "TypeError", "NonError"}
\* error constructors given to Route.catch as the filter
FilterClasses == {"TypeError"}

(***************************************************************************)
(* Route: the declaration API of Route.prototype.  A declaration operator   *)
(* maps the Route object R to [r |-> the Route after the call,             *)
(* err |-> "none" or the class of the error the call throws].              *)
(***************************************************************************)
Ok(R) == [r |-> R, err |-> "none"]
Throw(R, c) == [r |-> R, err |-> c]

\* Number.prototype.toString of the default step name (steps.length + 1)
NumStr(n) == <<"1", "2", "3", "4", "5", "6", "7", "8">>[n]
\* ToNumber of a stored step name; -1 stands for NaN
ToNumber(s) ==
    IF \E n \in 1..8 : NumStr(n) = s
    THEN CHOOSE n \in 1..8 : NumStr(n) = s
    ELSE -1

\* a step name given to addStep: a string, or the number the code makes up
StrName(s) == [num |-> FALSE, s |-> s, n |-> 0]
NumName(n) == [num |-> TRUE, s |-> "", n |-> n]
\* `step.name == name` (loose equality of a stored string with the given name)
LooseEq(stored, name) ==
    IF name.num THEN ToNumber(stored) = name.n ELSE stored = name.s
\* name.toString()
NameToString(name) == IF name.num THEN NumStr(name.n) ELSE name.s

\* one entry of route.steps
Step(name, fn) == [name |-> name, fn |-> fn, catch |-> <<>>]

\* descriptor.code of the error constructors a route declares
ErrorCode(c) ==
    CASE c = "ValidationError" -> 400
      [] c = "RequestError" -> 400
      [] OTHER -> 500

StatusCodes == {200, 400, 500}

\* mutant: a second schema for the success response is added to the first
respondsWith_Accumulate(R, d) ==
    LET code == IF d.isError THEN d.code ELSE 200
    IN [R EXCEPT !.responses[code] = Append(@, d.id),
                 !.declared = Append(@, d)]

\* Route.prototype.respondsWith: d is [isError, code, id].  R.declared is a
\* history field: the descriptors respondsWith was called with, in order
respondsWith(R, d) ==
    LET code == IF d.isError THEN d.code ELSE 200
        old == R.responses[code]
        new == IF code = 200 /\ Len(old) > 0
               THEN <<d.id>> \o SubSeq(old, 2, Len(old))
               ELSE Append(old, d.id)
    IN [R EXCEPT !.responses[code] = new, !.declared = Append(@, d)]

ErrorDescriptor(c) == [isError |-> TRUE, code |-> ErrorCode(c), id |-> c]

\* the types the parser has an entry for: the keys of contentTypes
TypesOf(contentTypes) == {e.type : e \in contentTypes}

\* Route.prototype.acceptsContentType: contentTypes is the set of its
\* entries [type, limit], limit standing for the options stored with the type
acceptsContentType(R, type, options) ==
    IF R.type \in {"get", "options"} THEN R
    ELSE
      LET R1 == IF ~R.parser.set
                THEN [R EXCEPT !.parser = [set |-> TRUE, contentTypes |-> {},
                                           mediaTypes |-> <<>>],
                               !.steps = Append(@, Step("content-type-parser", "reqBodyParser"))]
                ELSE R
      IN IF type \notin TypesOf(R1.parser.contentTypes)
         THEN [R1 EXCEPT !.parser.contentTypes =
                             @ \cup {[type |-> type, limit |-> options]},
                         !.parser.mediaTypes = Append(@, type)]
         ELSE R1

RECURSIVE IndexOf(_, _, _)
\* Array.prototype.indexOf from position i on; 0 stands for -1 (not found)
IndexOf(seq, x, i) ==
    IF i > Len(seq) THEN 0
    ELSE IF seq[i] = x THEN i ELSE IndexOf(seq, x, i + 1)

\* Array.prototype.splice(index, 1)
Splice1(seq, i) == SubSeq(seq, 1, i - 1) \o SubSeq(seq, i + 1, Len(seq))

\* mutant: the type is deleted from contentTypes only
rejectsContentType_KeepMedia(R, type) ==
    IF R.parser.set
    THEN [R EXCEPT !.parser.contentTypes = {e \in @ : e.type # type}]
    ELSE R

\* Route.prototype.rejectsContentType
rejectsContentType(R, type) ==
    IF R.parser.set
    THEN LET index == IndexOf(R.parser.mediaTypes, type, 1)
         IN [R EXCEPT !.parser.contentTypes = {e \in @ : e.type # type},
                      !.parser.mediaTypes =
                          IF index # 0 THEN Splice1(@, index) ELSE @]
    ELSE R

RECURSIVE AcceptAll(_, _)
\* Route.prototype.$setSupportedContentTypes: one acceptsContentType per key
\* of the App's bodyParser option (a sequence: Object.keys order)
AcceptAll(R, types) ==
    IF types = <<>> THEN R
    ELSE AcceptAll(acceptsContentType(R, Head(types), "config"), Tail(types))

setSupportedContentTypes(R, bodyParser) == AcceptAll(R, bodyParser)

\* function Route(options): the Route object the constructor returns
Route(type, url, uid, bodyParser) ==
    LET R0 == [type |-> type, url |-> url, uid |-> uid, steps |-> <<>>,
               responses |-> [c \in StatusCodes |-> <<>>], declared |-> <<>>,
               parser |-> [set |-> FALSE, contentTypes |-> {}, mediaTypes |-> <<>>]]
    IN respondsWith(setSupportedContentTypes(R0, bodyParser),
                    ErrorDescriptor("ServiceError"))

\* Route.prototype.main
main(R) == Ok([R EXCEPT !.steps = Append(@, Step("main", "user"))])

\* Route.prototype.validate
validate(R) ==
    Ok(respondsWith([R EXCEPT !.steps = Append(@, Step("validator", "validatorMiddleware"))],
                    ErrorDescriptor("ValidationError")))

\* Route.prototype.addStep (alias Route.prototype.step)
addStep(R, name, fn) ==
    IF \E i \in 1..Len(R.steps) : LooseEq(R.steps[i].name, name)
    THEN Throw(R, "RouteError")
    ELSE Ok([R EXCEPT !.steps = Append(@, Step(NameToString(name), fn))])

\* the name argument as addStep normalises it: a function given in place
\* of the name makes the name steps.length + 1
StepName(R, isFn, s) == IF isFn THEN NumName(Len(R.steps) + 1) ELSE StrName(s)

\* mutant: a catch declared with a handler only gets the filter TypeError
catch_DefaultTypeError(R, hasFilter, F) ==
    LET n == Len(R.steps)
    IN IF n = 0
       THEN Throw(R, "RouteError")
       ELSE LET entry == [filter |-> IF hasFilter THEN F ELSE "TypeError",
                          dflt |-> ~hasFilter]
            IN Ok([R EXCEPT !.steps[n].catch = Append(@, entry)])

\* mutant: the check that a step precedes the catch is missing
catch_NoCheck(R, hasFilter, F) ==
    LET n == Len(R.steps)
        entry == [filter |-> IF hasFilter THEN F ELSE "Error", dflt |-> ~hasFilter]
    IN IF n = 0
       THEN Ok(R)
       ELSE Ok([R EXCEPT !.steps[n].catch = Append(@, entry)])

\* Route.prototype.catch: hasFilter is `arguments.length >= 2`
catch(R, hasFilter, F) ==
    LET n == Len(R.steps)
    IN IF n = 0
       THEN Throw(R, "RouteError")
       ELSE LET entry == [filter |-> IF hasFilter THEN F ELSE "Error",
                          dflt |-> ~hasFilter]
            IN Ok([R EXCEPT !.steps[n].catch = Append(@, entry)])

\* mutant: the no-op step is appended to an empty steps list as well
build_AppendToEmpty(R) ==
    LET n == Len(R.steps)
    IN IF n = 0 \/ R.steps[n].name # "noop"
       THEN addStep(R, StrName("noop"), "noop")
       ELSE Ok(R)

\* Route.prototype.build, the part that runs at build time
build(R) ==
    LET n == Len(R.steps)
    IN IF n > 0 /\ R.steps[n].name # "noop"
       THEN addStep(R, StrName("noop"), "noop")
       ELSE Ok(R)

(***************************************************************************)
(* Route.prototype.build: the compiled callable.  The promise chain it     *)
(* assembles is a sequence of links: per step one `then` link followed by  *)
(* one `catch` link per entry of step.catch.                               *)
(***************************************************************************)
\* (dflt: the catch entry was declared with a handler only)
ThenLink(i) == [kind |-> "then", i |-> i, j |-> 0, filter |-> "-", dflt |-> FALSE]
CatchLink(i, j, entry) ==
    [kind |-> "catch", i |-> i, j |-> j, filter |-> entry.filter, dflt |-> entry.dflt]

\* mutant: only the entry at `index` is attached, the rest of the list is not
applyCatchList_FirstOnly(links, i, catchList, index) ==
    IF index > Len(catchList)
    THEN links
    ELSE Append(links, CatchLink(i, index, catchList[index]))

RECURSIVE applyCatchList(_, _, _, _)
\* applyCatchList(promise, req, res, catchList, index): the chain `links`
\* extended by promise.catch(filter, cb) for the entries from `index` on
applyCatchList(links, i, catchList, index) ==
    IF index > Len(catchList)
    THEN links
    ELSE applyCatchList(Append(links, CatchLink(i, index, catchList[index])),
                        i, catchList, index + 1)

RECURSIVE ChainFrom_CatchFirst(_, _, _)
\* mutant: the catch list of a step is applied before its `then` link
ChainFrom_CatchFirst(steps, i, links) ==
    IF i > Len(steps)
    THEN links
    ELSE ChainFrom_CatchFirst(steps, i + 1,
             Append(applyCatchList(links, i, steps[i].catch, 1), ThenLink(i)))

RECURSIVE ChainFrom_Reversed(_, _, _)
\* mutant: the steps are chained last to first
ChainFrom_Reversed(steps, i, links) ==
    IF i > Len(steps)
    THEN links
    ELSE ChainFrom_Reversed(steps, i + 1,
             applyCatchList(<<ThenLink(i)>>, i, steps[i].catch, 1) \o links)

RECURSIVE ChainFrom(_, _, _)
\* self.steps.forEach(...) of the callable, from step i on
ChainFrom(steps, i, links) ==
    IF i > Len(steps)
    THEN links
    ELSE ChainFrom(steps, i + 1,
                   applyCatchList(Append(links, ThenLink(i)), i, steps[i].catch, 1))

Chain(steps) == ChainFrom(steps, 1, <<>>)

\* Promise.config({cancellation: true}): route.js relies on it being enabled
CancellationEnabled == TRUE

\* mutant: the previous result is handed to the step function
StepArgs_PassValue(resCandidate) == <<resCandidate, ReqArg, ResArg>>

\* the arguments of step.fn.call(reqContext, req, res)
StepArgs(resCandidate) == <<ReqArg, ResArg>>
\* the arguments of cb(err, req, res)
CatchArgs(err) == <<err, ReqArg, ResArg>>

\* mutant: the filter is ignored
Matches_Any(filter, e) == TRUE

\* bluebird's catch filter for an Error constructor: `e instanceof filter`
Matches(filter, e) == InstanceOf(e.cls, filter)

Event(ev, i, j, args, v) == [ev |-> ev, i |-> i, j |-> j, args |-> args, v |-> v]

IdleReq == [st |-> "idle", links |-> <<>>, fns |-> <<>>, pos |-> 0,
            val |-> Undefined, log |-> <<>>, hasNext |-> FALSE,
            routeUID |-> "-"]

\* new RouteError(`Route ${self.options.url} not implemented`)
NotImplemented(R) ==
    [Value("err", "RouteError", <<"build", 0, 0>>)
        EXCEPT !.msg = <<"Route", R.url, "not implemented">>]

\* mutant: the check for an empty steps list is missing
Callback_NoCheck(R, hasNext) ==
    [IdleReq EXCEPT !.hasNext = hasNext, !.routeUID = R.uid,
                    !.st = "run", !.links = Chain(R.steps),
                    !.fns = [i \in 1..Len(R.steps) |-> R.steps[i].fn],
                    !.pos = 1, !.val = Undefined]

\* callback(req, res, next) up to the point the chain is assembled
Callback(R, hasNext) ==
    LET Q == [IdleReq EXCEPT !.hasNext = hasNext, !.routeUID = R.uid]
    IN IF Len(R.steps) = 0
       THEN [Q EXCEPT !.st = "rejected", !.val = NotImplemented(R)]
       ELSE [Q EXCEPT !.st = "run", !.links = Chain(R.steps),
                      !.fns = [i \in 1..Len(R.steps) |-> R.steps[i].fn],
                      !.pos = 1, !.val = Undefined]

\* mutant: promise.cancel() has no effect, the handler's undefined goes on
Cancel_NoEffect(Q) == [Q EXCEPT !.val = Undefined, !.pos = @ + 1]

\* promise.cancel() called from inside the `then` handler of link Q.pos
Cancel(Q) ==
    IF CancellationEnabled
    THEN [Q EXCEPT !.st = "cancelled"]
    ELSE [Q EXCEPT !.val = Undefined, !.pos = @ + 1]

\* mutant: the test for a Response is missing, the step function is called
ConsumeResponse_Ignore(Q, cbThrows) ==
    LET link == Q.links[Q.pos]
    IN [Q EXCEPT !.st = "await",
                 !.log = Append(@, Event("step", link.i, 0, <<ReqArg, ResArg>>, Q.val))]

\* `then` handler, resCandidate instanceof Response: resCandidate._fn.call(res)
\* either returns (cbThrows = "none") or throws a value of class cbThrows
ConsumeResponse(Q, cbThrows) ==
    LET link == Q.links[Q.pos]
        Q1 == [Q EXCEPT !.log = Append(@, Event("cb", link.i, 0, <<ResArg>>, Q.val))]
        e == Value("err", cbThrows, <<"cb", link.i, 0>>)
    IN IF cbThrows = "none"
       THEN Cancel(Q1)
       ELSE [Q1 EXCEPT !.val = e, !.pos = @ + 1,
                       !.log = Append(@, Event("cbThrow", link.i, 0, <<>>, e))]

\* `then` handler, otherwise: step.fn.call(reqContext, req, res)
InvokeStep(Q) ==
    LET link == Q.links[Q.pos]
    IN [Q EXCEPT !.st = "await",
                 !.log = Append(@, Event("step", link.i, 0, StepArgs(Q.val), Q.val))]

\* catch link whose filter matches the rejection: cb(err, req, res)
InvokeCatch(Q) ==
    LET link == Q.links[Q.pos]
    IN [Q EXCEPT !.st = "await",
                 !.log = Append(@, Event("catch", link.i, link.j, CatchArgs(Q.val), Q.val))]

\* a link whose handler is not called passes the settlement on unchanged
PassThrough(Q) == [Q EXCEPT !.pos = @ + 1]

\* the handler awaited at link Q.pos settles with outcome o = [k, cls]
SettleHandler(Q, o) ==
    LET link == Q.links[Q.pos]
        kind == IF link.kind = "then" THEN "step" ELSE "catch"
        v == Value(o.k, o.cls, <<kind, link.i, link.j>>)
    IN [Q EXCEPT !.st = "run", !.val = v, !.pos = @ + 1,
                 !.log = Append(@, Event(IF link.kind = "then" THEN "stepEnd" ELSE "catchEnd",
                                         link.i, link.j, <<>>, v))]

\* mutant: the continuation is attached to both outcomes of the chain
Finish_AlwaysNext(Q) ==
    IF Q.hasNext
    THEN [Q EXCEPT !.st = "fulfilled", !.pos = @ + 1,
                   !.log = Append(@, Event("next", 0, 0, <<Q.val>>, Undefined))]
    ELSE [Q EXCEPT !.st = IF Q.val.k = "err" THEN "rejected" ELSE "fulfilled",
                   !.pos = @ + 1]

\* the end of the chain: `return promise.catch(next)` or `return promise`
Finish(Q) ==
    IF Q.val.k = "err"
    THEN IF Q.hasNext
         THEN [Q EXCEPT !.st = "fulfilled", !.pos = @ + 1,
                        !.log = Append(@, Event("next", 0, 0, <<Q.val>>, Undefined))]
         ELSE [Q EXCEPT !.st = "rejected", !.pos = @ + 1]
    ELSE [Q EXCEPT !.st = "fulfilled", !.pos = @ + 1]

\* what a handler may settle with
Outcomes(fn) ==
    IF fn = "noop"
    THEN {[k |-> "undef", cls |-> "-"]}
    ELSE {[k |-> "val", cls |-> "-"], [k |-> "resp", cls |-> "-"]}
         \cup {[k |-> "err", cls |-> c] : c \in ThrowClasses}

\* the handler awaited at link Q.pos sends a response (res.json, res.end, ...)
\* on the `res` it was called with
Send(Q) ==
    LET link == Q.links[Q.pos]
    IN [Q EXCEPT !.log = Append(@, Event("send", link.i, link.j, <<ResArg>>, Undefined))]
\* a data object is given by its own property names, in key order; the
\* success schemas of the model both declare the property a only, schemaA
\* with additionalProperties: false and schemaB without the keyword
DataObjects == {<<>>, <<"a">>, <<"b">>, <<"a", "b">>}
SchemaDef(id) ==
    [properties |-> {"a"}, additionalProperties |-> (id # "schemaA")]
DataValue(data) == [Value("val", "-", NoOrigin) EXCEPT !.msg = data]

\* mutant: Ajv's removeAdditional: "all"
RemoveAdditional_All(schema, data) ==
    LET Declared(prop) == prop \in schema.properties
    IN SelectSeq(data, Declared)

\* the validator of App.prototype.getValidator run on data: with
\* removeAdditional: true, "only additional properties with
\* additionalProperties keyword equal to false are removed"
RemoveAdditional(schema, data) ==
    LET Declared(prop) == prop \in schema.properties
    IN IF schema.additionalProperties = FALSE
       THEN SelectSeq(data, Declared)
       ELSE data

\* res.filter(data): data staged for the render call is run through the
\* App's validator with the success schema declared on the route
filter(R, data) == RemoveAdditional(SchemaDef(R.responses[200][1]), data)

\* the handler awaited at link Q.pos calls res.filter(data).json()
FilterSend(Q, R, data) ==
    LET link == Q.links[Q.pos]
    IN [Q EXCEPT !.log = Append(@, Event("send", link.i, link.j,
                                         <<ResArg, DataValue(data)>>,
                                         DataValue(filter(R, data))))]

\* res.headersSent
HeadersSent(Q) == \E n \in 1..Len(Q.log) : Q.log[n].ev = "send"



(***************************************************************************)
(* App: routers and the registry app.routes, indexed by route uid.         *)
(* A route object is identified by its position in app.created, the list   *)
(* of Route objects constructed so far (threw: what router.buildRoute      *)
(* threw for it); app.routes is a function from the registered uids to     *)
(* those positions.                                                        *)
(***************************************************************************)
\* _.upperFirst / _.lowerFirst on the route names of the model
UpperFirst(s) ==
    CASE s = "users" -> "Users"
      [] s = "items" -> "Items"
      [] OTHER -> s
LowerFirst(s) ==
    CASE s = "Users" -> "users"
      [] s = "Items" -> "items"
      [] OTHER -> s

\* Router.options.routeNameFormat, as a list of tokens
RouteNameFormat == <<"{method}", "{Name}", "_", "{version}">>

\* Route.prototype.$formatUid: version = "" when the router has none
formatUid(format, type, name, version) ==
    IF (\E n \in 1..Len(format) : format[n] = "{version}") /\ version = ""
    THEN [err |-> "RouteError", uid |-> <<>>]
    ELSE [err |-> "none",
          uid |-> [n \in 1..Len(format) |->
                     CASE format[n] = "{method}" -> type
                       [] format[n] = "{Method}" -> UpperFirst(type)
                       [] format[n] = "{name}" -> LowerFirst(name)
                       [] format[n] = "{Name}" -> UpperFirst(name)
                       [] format[n] = "{version}" -> version
                       [] OTHER -> format[n]]]

\* mutant: the listener caches the route without looking at app.routes
buildRouteListener_NoCheck(A, n) ==
    LET uid == A.created[n].uid
    IN [A EXCEPT !.routes = [k \in DOMAIN A.routes \cup {uid} |->
                                IF k = uid THEN n ELSE A.routes[k]]]

\* the 'build-route' listener App.prototype.$init puts on every router:
\* n is the route object handed to it
buildRouteListener(A, n) ==
    LET uid == A.created[n].uid
    IN IF uid \in DOMAIN A.routes
       THEN [A EXCEPT !.thrown = "Error", !.created[n].threw = "Error"]
       ELSE [A EXCEPT !.routes = [k \in DOMAIN A.routes \cup {uid} |->
                                     IF k = uid THEN n ELSE A.routes[k]]]

\* App.prototype.buildRouter: the new router gets one 'build-route' listener
buildRouter(A, version) ==
    [A EXCEPT !.routers = Append(@, [version |-> version, listeners |-> 1]),
              !.thrown = "none"]

\* Router.prototype.buildRoute on router number rt: constructs the Route and
\* emits 'build-route' with it
buildRoute(A, rt, type, name) ==
    LET f == formatUid(RouteNameFormat, type, name, A.routers[rt].version)
        A1 == [A EXCEPT !.created = Append(@, [uid |-> f.uid, router |-> rt,
                                               type |-> type, name |-> name,
                                               threw |-> "none"]),
                        !.thrown = "none"]
    IN IF f.err # "none"
       THEN [A EXCEPT !.thrown = f.err]
       ELSE IF A.routers[rt].listeners > 0
            THEN buildRouteListener(A1, Len(A1.created))
            ELSE A1

(***************************************************************************)
(* The errorHandler middleware (`this` is the App) and the App's event     *)
(* listeners.  An error value is a record: its class, its status code (0   *)
(* when it has none), what it was built from, and the origin and request   *)
(* uid set on it (stamps counts the setOrigin/setUID calls made on it).    *)
(* The record of one run keeps, next to the response and the events, three *)
(* history fields: ran (the listeners of 'error-response' called so far,   *)
(* with the length of the wire when each returned), promise (the state of  *)
(* the promise errorHandler returned, "none" when it returned no promise)  *)
(* and handed (the values the 'unknown-error' listener called back with);  *)
(* entered is the history of the values errorHandler was entered with.     *)
(***************************************************************************)
\* user listeners of 'error-response' the model registers at most
MaxListeners == 2

\* the values errorHandler is called with
ErrorClasses == {"undefined", "null", "NonError", "Error", "TypeError",
                 "RequestError", "ValidationError", "ServiceError"}
\* the errors an 'unknown-error' listener hands back in place of the original
Replacements == {"RequestError", "ServiceError"}
\* what a user listener of 'error-response' does: sends a response itself,
\* returns without sending, or throws / returns a rejected promise
UserListeners == {"send", "pass", "throw"}
\* req.routeUID: empty when no route was executing
RouteUIDs == {"", "getUsers_v1"}

Fault(cls) ==
    [cls |-> cls,
     code |-> IF InstanceOf(cls, "RequestError") THEN ErrorCode(cls) ELSE 0,
     cause |-> "-", origin |-> "unset", uid |-> "unset", stamps |-> 0]

\* mutant: null is wrapped into a plain RequestError
NullFault_Client == [Fault("RequestError") EXCEPT !.cause = "null"]

\* new ServiceError({message: 'Got error of type NULL in the Error Hanlder middleware'})
NullFault == [Fault("ServiceError") EXCEPT !.cause = "null"]

\* ServiceError.buildFrom(err)
buildFrom(err) == [Fault("ServiceError") EXCEPT !.cause = err.cls]

\* no listener registered, the tick of App.prototype.$init not yet run
NoListeners ==
    [init |-> FALSE, errorResponse |-> <<>>, unknownError |-> <<>>, thrown |-> "none"]

\* App.prototype.on(event, listener)
on(L, event, listener) ==
    IF event = "unknown-error"
    THEN IF Len(L.unknownError) >= 1
         THEN [L EXCEPT !.thrown = "Error"]
         ELSE [L EXCEPT !.unknownError = Append(@, listener), !.thrown = "none"]
    ELSE [L EXCEPT !.errorResponse = Append(@, listener), !.thrown = "none"]

\* the process.nextTick callback of App.prototype.$init: registers the
\* default 'error-response' listener
initTick(L) == [on(L, "error-response", "default") EXCEPT !.init = TRUE]

\* the request and response errorHandler has not been called with yet
IdleHandler ==
    [st |-> "idle", input |-> Fault("undefined"), err |-> Fault("undefined"),
     routeUID |-> "", UID |-> "", status |-> 0, headersSent |-> FALSE,
     preSent |-> FALSE, wire |-> <<>>, events |-> <<>>, nextCalls |-> <<>>,
     idx |-> 0, calls |-> 0, stamped |-> <<>>,
     ran |-> <<>>, promise |-> "none", handed |-> <<>>, entered |-> <<>>]

\* the response a step of the route has sent before it failed
StepResponse == [status |-> 200, body |-> Fault("undefined"), by |-> "step"]

\* (err, req, res, next) as express hands them to the middleware
StartHandler(input, sent, routeUID) ==
    [IdleHandler EXCEPT !.input = input, !.err = input, !.routeUID = routeUID,
                        !.UID = "req-1", !.headersSent = sent, !.preSent = sent,
                        !.wire = IF sent THEN <<StepResponse>> ELSE <<>>]

\* app.emit(name, err)
Emit(H, name, err) == [H EXCEPT !.events = Append(@, [name |-> name, err |-> err])]

\* mutant: the handler returns without calling next
NextNoError_Silent(H) == [H EXCEPT !.st = "done"]

\* `return next()`
NextNoError(H) == [H EXCEPT !.nextCalls = Append(@, <<>>), !.st = "done"]

\* mutant: every RequestError is stamped
IsInternalFault_Any(err) == TRUE

\* `err instanceof ServiceError`
IsInternalFault(err) == InstanceOf(err.cls, "ServiceError")

\* err.setOrigin(req.routeUID); err.setUID(req.UID)
SetStamps(H, err) ==
    [err EXCEPT !.origin = H.routeUID, !.uid = H.UID, !.stamps = @ + 1]

\* mutant: the status of the response is left as it is
SetStatus_Skip(H, err) == H

\* res.status(err.code)
SetStatus(H, err) == [H EXCEPT !.status = err.code]

\* mutant: every RequestError is announced with an 'error' event
Respond_NotifyAll(H, err) ==
    LET e1 == IF IsInternalFault(err) THEN SetStamps(H, err) ELSE err
        H1 == IF IsInternalFault(err)
              THEN [Emit(H, "error", e1) EXCEPT !.stamped = Append(@, e1)]
              ELSE Emit(H, "error", e1)
    IN [SetStatus(H1, e1) EXCEPT !.err = e1, !.st = "series", !.idx = 1,
                                 !.promise = "pending"]

\* the branch `err instanceof RequestError` up to the call of emitAsyncSeries,
\* whose promise (with its catch) the handler returns
Respond(H, err) ==
    LET e1 == IF IsInternalFault(err) THEN SetStamps(H, err) ELSE err
        H1 == IF IsInternalFault(err)
              THEN [Emit(H, "error", e1) EXCEPT !.stamped = Append(@, e1)]
              ELSE H
    IN [SetStatus(H1, e1) EXCEPT !.err = e1, !.st = "series", !.idx = 1,
                                 !.promise = "pending"]

\* mutant: every Error but a RequestError goes to the 'unknown-error' listener
IsUnknownError_AnyError(err) == InstanceOf(err.cls, "Error")

\* Error.prototype.isPrototypeOf(Object.getPrototypeOf(err))
IsUnknownError(err) == InstanceOf(ParentClass(err.cls), "Error")

RECURSIVE errorHandler(_, _, _)
\* errorHandler(err, req, res, next), up to the point where it returns
errorHandler(H0, L, err) ==
    LET H == [H0 EXCEPT !.calls = @ + 1, !.entered = Append(@, err)]
    IN IF err.cls = "undefined" THEN NextNoError(H)
       ELSE IF err.cls = "null" THEN errorHandler(H, L, NullFault)
       ELSE IF InstanceOf(err.cls, "RequestError") THEN Respond(H, err)
       ELSE IF IsUnknownError(err)
       THEN IF Len(L.unknownError) > 0
            THEN [Emit(H, "unknown-error", err) EXCEPT !.st = "hook", !.err = err]
            ELSE errorHandler(H, L, buildFrom(err))
       ELSE IF InstanceOf(err.cls, "Error")
       THEN errorHandler(H, L, buildFrom(err))
       ELSE [H EXCEPT !.st = "done"]

\* mutant: the callback passes on whatever it is called with
hookCallback_NoCoerce(H, L, error) ==
    errorHandler([H EXCEPT !.handed = Append(@, error)], L, error)

\* the callback handed to the 'unknown-error' listener, called with error
hookCallback(H, L, error) ==
    errorHandler([H EXCEPT !.handed = Append(@, error)], L,
                 IF InstanceOf(error.cls, "RequestError")
                 THEN error ELSE buildFrom(error))

\* res.json(body) and the like: the response goes on the wire
SendBody(H, body, by) ==
    [H EXCEPT !.headersSent = TRUE,
              !.wire = Append(@, [status |-> H.status, body |-> body, by |-> by])]

\* mutant: the default listener sends whatever was sent before
DefaultListener_Always(H) == SendBody(H, H.err, "default")

\* the default 'error-response' listener of App.prototype.$init
DefaultListener(H) ==
    IF ~H.headersSent THEN SendBody(H, H.err, "default") ELSE H

\* one listener of 'error-response' is called with (err, res): a user
\* listener that sends when the headers are sent already throws
RunListener(H, kind) ==
    CASE kind = "default" -> [h |-> DefaultListener(H), threw |-> FALSE]
      [] kind = "send" -> IF H.headersSent
                          THEN [h |-> H, threw |-> TRUE]
                          ELSE [h |-> SendBody(H, H.err, "user"), threw |-> FALSE]
      [] kind = "pass" -> [h |-> H, threw |-> FALSE]
      [] OTHER -> [h |-> H, threw |-> TRUE]

\* mutant: the failure of a listener is not caught
SeriesCatch_Reject(H, e) == [H EXCEPT !.st = "done", !.promise = "rejected"]

\* .catch(function(err) { app.emit('error', err); }): the promise the
\* handler returned is fulfilled with what the catch callback returns
SeriesCatch(H, e) ==
    [Emit(H, "error", e) EXCEPT !.st = "done", !.promise = "fulfilled"]

\* the error a failing listener of 'error-response' throws or rejects with
ListenerFault == [Fault("Error") EXCEPT !.cause = "listener"]

\* mutant: the listeners after a failing one are still called
SeriesStep_Continue(H, L) ==
    LET r == RunListener(H, L.errorResponse[H.idx])
        h == [r.h EXCEPT !.ran = Append(@, [idx |-> H.idx, threw |-> r.threw,
                                            wire |-> Len(r.h.wire)])]
    IN IF r.threw
       THEN [Emit(h, "error", ListenerFault) EXCEPT !.idx = @ + 1]
       ELSE [h EXCEPT !.idx = @ + 1]

\* app.emitAsyncSeries('error-response', err, res): the listener at H.idx
\* runs; the series ends at the first listener that fails
SeriesStep(H, L) ==
    LET r == RunListener(H, L.errorResponse[H.idx])
        h == [r.h EXCEPT !.ran = Append(@, [idx |-> H.idx, threw |-> r.threw,
                                            wire |-> Len(r.h.wire)])]
    IN IF r.threw
       THEN SeriesCatch(h, ListenerFault)
       ELSE [h EXCEPT !.idx = @ + 1]

(***************************************************************************)
(* Initial states: the Route as its constructor leaves it, on an App       *)
(* whose config may hold a bodyParser option; no request dispatched yet.   *)
(***************************************************************************)
RequestTypes == {"get", "post"}
BodyParserConfigs == {<<>>, <<"json">>}
ContentTypes == {"json", "xml"}
\* options.limit given to acceptsContentType ("none": no options, "config":
\* the options of the App's bodyParser config)
Limits == {"100kb", "1mb", "2mb"}
\* names given explicitly to addStep
DeclNames == {"a", "main", "noop", "2"}
RouteNames == {"users", "Users", "items"}
Versions == {"", "v1"}

\* the values of the AppStatus enum
Statuses == {"init", "ok", "error"}

\* mutant: the tick applies the status whatever the current one is
statusTick_NoLatch(A) ==
    [A EXCEPT !.ticks = Tail(@), !.status = Head(A.ticks).status,
              !.statusEvents = Append(@, Head(A.ticks).status)]

\* the process.nextTick callback of App.prototype.$setStatus, for the call
\* at the head of the tick queue
statusTick(A) ==
    IF A.status = "error"
    THEN [A EXCEPT !.ticks = Tail(@)]
    ELSE [A EXCEPT !.ticks = Tail(@), !.status = Head(A.ticks).status,
                   !.statusEvents = Append(@, Head(A.ticks).status)]

\* App.prototype.$setStatus(status): schedules the tick.  `at` is a history
\* field: app.status when the call was made
setStatus(A, status) ==
    [A EXCEPT !.ticks = Append(@, [status |-> status, at |-> A.status]),
              !.setCalls = Append(@, [status |-> status, at |-> A.status])]

\* the App as its constructor leaves it: no router, no route, app.routes = {},
\* status null and the tick of $setStatus(AppStatus.INIT) pending.  ticks is
\* the queue of process.nextTick callbacks scheduled by $setStatus;
\* statusEvents (the 'status-changed' events emitted) and setCalls (the
\* $setStatus calls made) are history fields
NoApp ==
    setStatus([routers |-> <<>>, created |-> <<>>, routes |-> <<>>, thrown |-> "none",
               status |-> "null", ticks |-> <<>>, statusEvents |-> <<>>,
               setCalls |-> <<>>],
              "init")

InitRoute(types, configs) ==
    /\ appCfg \in configs
    /\ \E type \in types : route = Route(type, "/users",
                                   formatUid(RouteNameFormat, type, "users", "v1").uid,
                                   appCfg)
    /\ built = FALSE
    /\ thrown = "none"
    /\ lastOp = "new"
    /\ app = NoApp
    /\ emitter = NoListeners
    /\ eh = IdleHandler

\* one request is dispatched to the compiled callable
Init ==
    /\ InitRoute(RequestTypes, {<<"json">>})
    /\ reqs = [r \in {1} |-> IdleReq]

Requests == DOMAIN reqs
NoTraffic == \A r \in Requests : reqs[r].st = "idle"
RECURSIVE TotalCatch(_, _)
TotalCatch(steps, i) ==
    IF i > Len(steps) THEN 0 ELSE Len(steps[i].catch) + TotalCatch(steps, i + 1)

\* a declaration call on the route: `res` is what the Route method yields
Declare(op, res) ==
    /\ NoTraffic
    /\ route' = res.r
    /\ thrown' = res.err
    /\ lastOp' = op
    /\ UNCHANGED <<appCfg, built, reqs, app, emitter, eh>>

\* route.addStep(fn) / route.step(fn)
AddStepFn ==
    /\ Len(route.steps) < MaxSteps
    /\ Declare("addStep", addStep(route, StepName(route, TRUE, ""), "user"))

\* route.addStep(name, fn) / route.step(name, fn)
AddStepNamed ==
    /\ Len(route.steps) < MaxSteps
    /\ \E s \in DeclNames :
          Declare("addStep", addStep(route, StepName(route, FALSE, s), "user"))

\* route.main(fn)
Main ==
    /\ Len(route.steps) < MaxSteps
    /\ Declare("main", main(route))

\* route.validate(schema, dataProp)
Validate ==
    /\ Len(route.steps) < MaxSteps
    /\ Declare("validate", validate(route))

\* route.catch(cb)
CatchDefault ==
    /\ TotalCatch(route.steps, 1) < MaxCatch
    /\ Declare("catch", catch(route, FALSE, "-"))

\* route.catch(filter, cb)
CatchFilter ==
    /\ TotalCatch(route.steps, 1) < MaxCatch
    /\ \E F \in FilterClasses : Declare("catch", catch(route, TRUE, F))

\* route.acceptsContentType(type)
AcceptsContentType ==
    /\ Len(route.steps) < MaxSteps
    /\ \E t \in ContentTypes :
          Declare("acceptsContentType", Ok(acceptsContentType(route, t, "none")))

\* route.acceptsContentType(type, {limit: ...})
AcceptsContentTypeLimit ==
    \E t \in ContentTypes, o \in Limits :
        Declare("acceptsContentType", Ok(acceptsContentType(route, t, o)))

\* route.rejectsContentType(type)
RejectsContentType ==
    \E t \in ContentTypes :
        Declare("rejectsContentType", Ok(rejectsContentType(route, t)))

\* the descriptors the model calls respondsWith with: two validation
\* schemas and three Error constructors
Schemas == {"schemaA", "schemaB"}
Descriptors ==
    {[isError |-> FALSE, code |-> 0, id |-> s] : s \in Schemas}
        \cup {ErrorDescriptor(c) : c \in {"RequestError", "ValidationError", "ServiceError"}}

\* route.respondsWith(descriptor)
RespondsWith ==
    /\ Len(route.declared) < MaxDeclared
    /\ \E d \in Descriptors : Declare("respondsWith", Ok(respondsWith(route, d)))

\* route.respondsWith(schema)
RespondsWithSchema ==
    /\ Len(route.declared) < MaxDeclared
    /\ \E s \in Schemas :
          Declare("respondsWith",
                  Ok(respondsWith(route, [isError |-> FALSE, code |-> 0, id |-> s])))

\* route.build()
Build ==
    LET res == build(route)
    IN /\ NoTraffic
       /\ route' = res.r
       /\ thrown' = res.err
       /\ lastOp' = "build"
       /\ built' = (built \/ res.err = "none")
       /\ UNCHANGED <<appCfg, reqs, app, emitter, eh>>

(***************************************************************************)
(* One execution of the compiled callable, link by link.                   *)
(***************************************************************************)
\* mutant: one promise chain is shared by the executions, and cancelling it
\* stops every request in flight
Exec_SharedChain(r, Q) ==
    /\ reqs' = [q \in Requests |->
                  IF q = r THEN Q
                  ELSE IF Q.st = "cancelled" /\ reqs[q].st \in {"run", "await"}
                       THEN [reqs[q] EXCEPT !.st = "cancelled"]
                       ELSE reqs[q]]
    /\ UNCHANGED <<route, appCfg, built, thrown, lastOp, app, emitter, eh>>

\* one link of the chain of request r acts: `promise`, reqContext and res
\* are local to one call of the compiled callable
Exec(r, Q) ==
    /\ reqs' = [reqs EXCEPT ![r] = Q]
    /\ UNCHANGED <<route, appCfg, built, thrown, lastOp, app, emitter, eh>>

\* the compiled callable is called: the last call is no declaration any more
Dispatch(r, Q) ==
    /\ reqs' = [reqs EXCEPT ![r] = Q]
    /\ thrown' = "none"
    /\ lastOp' = "call"
    /\ UNCHANGED <<route, appCfg, built, app, emitter, eh>>

AtLink(r, kind) ==
    /\ reqs[r].st = "run"
    /\ reqs[r].pos <= Len(reqs[r].links)
    /\ reqs[r].links[reqs[r].pos].kind = kind

\* callback(req, res, next) / callback(req, res)
Call ==
    \E r \in Requests, hasNext \in BOOLEAN :
        /\ built
        /\ reqs[r].st = "idle"
        /\ Dispatch(r, Callback(route, hasNext))

\* a `then` link receives a Response
ThenResponse ==
    \E r \in Requests, cbThrows \in {"none"} \cup ThrowClasses :
        /\ AtLink(r, "then")
        /\ reqs[r].val.k = "resp"
        /\ Exec(r, ConsumeResponse(reqs[r], cbThrows))

\* a `then` link receives any other fulfilment value
ThenStep ==
    \E r \in Requests :
        /\ AtLink(r, "then")
        /\ reqs[r].val.k \in {"undef", "val"}
        /\ Exec(r, InvokeStep(reqs[r]))

\* a `then` link behind a rejected promise
ThenSkip ==
    \E r \in Requests :
        /\ AtLink(r, "then")
        /\ reqs[r].val.k = "err"
        /\ Exec(r, PassThrough(reqs[r]))

\* a `catch` link behind a rejection its filter matches
CatchInvoke ==
    \E r \in Requests :
        /\ AtLink(r, "catch")
        /\ reqs[r].val.k = "err"
        /\ Matches(reqs[r].links[reqs[r].pos].filter, reqs[r].val)
        /\ Exec(r, InvokeCatch(reqs[r]))

\* a `catch` link behind a fulfilled promise or a rejection it does not match
CatchSkip ==
    \E r \in Requests :
        /\ AtLink(r, "catch")
        /\ ~(reqs[r].val.k = "err"
             /\ Matches(reqs[r].links[reqs[r].pos].filter, reqs[r].val))
        /\ Exec(r, PassThrough(reqs[r]))

\* the step function or catch handler that was called returns, throws,
\* or the promise it returned settles
Settle ==
    \E r \in Requests :
        /\ reqs[r].st = "await"
        /\ LET link == reqs[r].links[reqs[r].pos]
               fn == IF link.kind = "then" THEN reqs[r].fns[link.i] ELSE "user"
           IN \E o \in Outcomes(fn) : Exec(r, SettleHandler(reqs[r], o))

\* the step function or catch handler that was called sends a response and
\* then returns or throws
SettleSend ==
    \E r \in Requests :
        /\ reqs[r].st = "await"
        /\ ~HeadersSent(reqs[r])
        /\ LET link == reqs[r].links[reqs[r].pos]
               fn == IF link.kind = "then" THEN reqs[r].fns[link.i] ELSE "user"
           IN /\ fn # "noop"
              /\ \E o \in Outcomes(fn) : Exec(r, SettleHandler(Send(reqs[r]), o))

\* the step function that was called renders data staged with res.filter
\* and returns
SettleFilter ==
    \E r \in Requests, data \in DataObjects :
        /\ reqs[r].st = "await"
        /\ ~HeadersSent(reqs[r])
        /\ route.responses[200] # <<>>
        /\ reqs[r].fns[reqs[r].links[reqs[r].pos].i] = "user"
        /\ Exec(r, SettleHandler(FilterSend(reqs[r], route, data),
                                 [k |-> "undef", cls |-> "-"]))

\* the last promise of the chain has settled
Finished ==
    \E r \in Requests :
        /\ reqs[r].st = "run"
        /\ reqs[r].pos = Len(reqs[r].links) + 1
        /\ Exec(r, Finish(reqs[r]))

\* app.buildRouter(options)
BuildRouter ==
    /\ Len(app.routers) < MaxRouters
    /\ \E v \in Versions : app' = buildRouter(app, v)
    /\ UNCHANGED <<route, appCfg, built, thrown, lastOp, reqs, emitter, eh>>

\* router.buildRoute(options)
BuildRoute ==
    /\ Len(app.created) < MaxRoutes
    /\ \E rt \in 1..Len(app.routers), type \in RequestTypes, name \in RouteNames :
          app' = buildRoute(app, rt, type, name)
    /\ UNCHANGED <<route, appCfg, built, thrown, lastOp, reqs, emitter, eh>>

\* app.$setStatus(status)
SetStatusCall ==
    /\ Len(app.setCalls) < MaxStatusCalls
    /\ \E status \in Statuses : app' = setStatus(app, status)
    /\ UNCHANGED <<route, appCfg, built, thrown, lastOp, reqs, emitter, eh>>

\* the next tick scheduled by $setStatus runs
StatusTick ==
    /\ app.ticks # <<>>
    /\ app' = statusTick(app)
    /\ UNCHANGED <<route, appCfg, built, thrown, lastOp, reqs, emitter, eh>>

(***************************************************************************)
(* The App's listeners and one run of the errorHandler middleware.         *)
(***************************************************************************)
RouteVars == <<route, appCfg, built, thrown, lastOp, reqs, app>>
UserListenerCount ==
    Cardinality({n \in 1..Len(emitter.errorResponse) :
                    emitter.errorResponse[n] # "default"})

\* app.on('error-response', listener) by the service author
OnErrorResponse ==
    /\ eh.st = "idle"
    /\ UserListenerCount < MaxListeners
    /\ \E kind \in UserListeners : emitter' = on(emitter, "error-response", kind)
    /\ UNCHANGED <<RouteVars, eh>>

\* app.on('unknown-error', listener) by the service author
OnUnknownError ==
    /\ eh.st = "idle"
    /\ emitter' = on(emitter, "unknown-error", "hook")
    /\ UNCHANGED <<RouteVars, eh>>

\* the tick scheduled by App.prototype.$init runs
InitTick ==
    /\ ~emitter.init
    /\ emitter' = initTick(emitter)
    /\ UNCHANGED <<RouteVars, eh>>

\* express calls errorHandler(err, req, res, next): the middleware is
\* installed after the tick of $init ('post-build')
HandleError ==
    /\ emitter.init
    /\ eh.st = "idle"
    /\ \E c \in ErrorClasses, sent \in BOOLEAN, uid \in RouteUIDs :
          eh' = errorHandler(StartHandler(Fault(c), sent, uid), emitter, Fault(c))
    /\ UNCHANGED <<RouteVars, emitter>>

\* the 'unknown-error' listener calls the callback it was given, with the
\* original error or with a replacement
HookCallsBack ==
    /\ eh.st = "hook"
    /\ \E e \in {eh.err} \cup {Fault(c) : c \in Replacements} :
          eh' = hookCallback(eh, emitter, e)
    /\ UNCHANGED <<RouteVars, emitter>>

\* emitAsyncSeries calls the next listener of 'error-response'
ErrorResponseListener ==
    /\ eh.st = "series"
    /\ eh.idx <= Len(emitter.errorResponse)
    /\ eh' = SeriesStep(eh, emitter)
    /\ UNCHANGED <<RouteVars, emitter>>

\* the promise of emitAsyncSeries is fulfilled: every listener returned
SeriesEnd ==
    /\ eh.st = "series"
    /\ eh.idx > Len(emitter.errorResponse)
    /\ eh' = [eh EXCEPT !.st = "done", !.promise = "fulfilled"]
    /\ UNCHANGED <<RouteVars, emitter>>

Next ==
    \/ AddStepFn
    \/ CatchDefault
    \/ CatchFilter
    \/ Build
    \/ Call
    \/ ThenResponse
    \/ ThenStep
    \/ ThenSkip
    \/ CatchInvoke
    \/ CatchSkip
    \/ Settle
    \/ Finished

Spec == Init /\ [][Next]_vars

\* executions of a get route whose handlers may send a response themselves
InitSend ==
    /\ InitRoute({"get"}, {<<"json">>})
    /\ reqs = [r \in {1} |-> IdleReq]

NextSend ==
    \/ AddStepFn
    \/ CatchDefault
    \/ Build
    \/ Call
    \/ ThenResponse
    \/ ThenStep
    \/ ThenSkip
    \/ CatchInvoke
    \/ CatchSkip
    \/ Settle
    \/ SettleSend
    \/ Finished

SpecSend == InitSend /\ [][NextSend]_vars

\* executions of a get route with catch entries declared with a handler only
NextRun ==
    \/ AddStepFn
    \/ CatchDefault
    \/ Build
    \/ Call
    \/ ThenResponse
    \/ ThenStep
    \/ ThenSkip
    \/ CatchInvoke
    \/ CatchSkip
    \/ Settle
    \/ Finished

SpecRun == InitSend /\ [][NextRun]_vars

\* a link of the chain of a request in flight acts
Advance ==
    /\ \E r \in Requests : reqs[r].st \in {"run", "await"}
    /\ NextRun
    /\ reqs' # reqs

\* every step function and catch handler that was called settles, and every
\* settled promise runs its continuation
SpecRunFair == SpecRun /\ WF_vars(Advance)

\* executions of a get route with catch entries of both kinds
SpecGet == InitSend /\ [][Next]_vars

\* executions of a get route whose steps render filtered data
NextFilter ==
    \/ RespondsWithSchema
    \/ AddStepFn
    \/ Build
    \/ Call
    \/ ThenResponse
    \/ ThenStep
    \/ ThenSkip
    \/ Settle
    \/ SettleFilter
    \/ Finished

SpecFilter == InitSend /\ [][NextFilter]_vars

\* two requests in flight on one compiled get route
InitTwo ==
    /\ InitRoute({"get"}, {<<"json">>})
    /\ reqs = [r \in {1, 2} |-> IdleReq]

NextTwo ==
    \/ AddStepFn
    \/ Build
    \/ Call
    \/ ThenResponse
    \/ ThenStep
    \/ ThenSkip
    \/ Settle
    \/ Finished

SpecTwo == InitTwo /\ [][NextTwo]_vars

\* a link of the chain of request r acts
Progress(r) ==
    /\ reqs[r].st \in {"run", "await"}
    /\ NextTwo
    /\ reqs'[r] # reqs[r]

\* every handler that was called settles and every settled promise runs its
\* continuation, for each request
SpecTwoFair == SpecTwo /\ \A r \in {1, 2} : WF_vars(Progress(r))

\* the declaration API of one Route, for every method and App config
InitDecl ==
    /\ InitRoute(RequestTypes, BodyParserConfigs)
    /\ reqs = [r \in {1} |-> IdleReq]

NextDecl ==
    \/ AddStepFn
    \/ AddStepNamed
    \/ Main
    \/ Validate
    \/ CatchDefault
    \/ CatchFilter
    \/ AcceptsContentType
    \/ RejectsContentType
    \/ Build

SpecDecl == InitDecl /\ [][NextDecl]_vars

\* the content types of one Route
NextTypes ==
    \/ AcceptsContentType
    \/ AcceptsContentTypeLimit
    \/ RejectsContentType

SpecTypes == InitDecl /\ [][NextTypes]_vars

\* the response registry of one Route
NextResp ==
    \/ RespondsWith
    \/ Validate

SpecResp == InitDecl /\ [][NextResp]_vars

\* routers and routes declared on one App
NextApp ==
    \/ BuildRouter
    \/ BuildRoute

InitApp ==
    /\ InitRoute({"get"}, {<<>>})
    /\ reqs = [r \in {1} |-> IdleReq]

SpecApp == InitApp /\ [][NextApp]_vars

\* the status of one App
NextStatus ==
    \/ SetStatusCall
    \/ StatusTick

SpecStatus == InitApp /\ [][NextStatus]_vars

\* the error handler of one App at work on one failed request
InitHandler ==
    /\ InitRoute({"get"}, {<<>>})
    /\ reqs = [r \in {1} |-> IdleReq]

NextHandler ==
    \/ OnErrorResponse
    \/ OnUnknownError
    \/ InitTick
    \/ HandleError
    \/ HookCallsBack
    \/ ErrorResponseListener
    \/ SeriesEnd

SpecHandler == InitHandler /\ [][NextHandler]_vars

\* every listener that was called returns, and the 'unknown-error' listener
\* calls back
SpecHandlerFair ==
    /\ SpecHandler
    /\ WF_vars(HookCallsBack)
    /\ WF_vars(ErrorResponseListener)
    /\ WF_vars(SeriesEnd)

(***************************************************************************)
(* Properties of one execution of the compiled callable.                   *)
(***************************************************************************)
Log(r) == reqs[r].log
Positions(r) == 1..Len(Log(r))
Terminal(r) == reqs[r].st \in {"cancelled", "fulfilled", "rejected"}
NSteps(r) == Len(reqs[r].fns)
IsStart(e) == e.ev \in {"step", "catch"}
IsYield(e) == e.ev \in {"stepEnd", "catchEnd"}
Range(seq) == {seq[n] : n \in 1..Len(seq)}
\* number of times the callback of Response `resp` was invoked
CbCount(r, resp) ==
    Cardinality({q \in Positions(r) : Log(r)[q].ev = "cb" /\ Log(r)[q].v = resp})
\* (i, j) of event a lies before (i, j) of event b in the chain
Before(ai, aj, bi, bj) == ai < bi \/ (ai = bi /\ aj < bj)
\* the catch links of step i
CatchLinks(r, i) ==
    {l \in Range(reqs[r].links) : l.kind = "catch" /\ l.i = i}
\* position in the chain of the catch link (i, j)
LinkIndex(r, i, j) ==
    CHOOSE n \in 1..Len(reqs[r].links) :
        reqs[r].links[n].i = i /\ reqs[r].links[n].j = j

C2_StepOrder ==
    \A r \in Requests :
        LET L == reqs[r].log
            n == Len(L)
        IN /\ \A p \in 1..n :
                 IsStart(L[p]) =>
                     /\ \A q \in (p + 1)..n :
                           IsStart(L[q]) => Before(L[p].i, L[p].j, L[q].i, L[q].j)
                     /\ IF p = n
                        THEN reqs[r].st = "await"
                        ELSE /\ L[p + 1].ev = (IF L[p].ev = "step"
                                               THEN "stepEnd" ELSE "catchEnd")
                             /\ L[p + 1].i = L[p].i
                             /\ L[p + 1].j = L[p].j
           /\ reqs[r].st = "await" => IsStart(L[n])

\* step i ran, a catch handler of step i ran, then step i + 1 ran
C2_Witness ==
    \E r \in Requests : \E p, q, n \in Positions(r) :
        /\ p < q /\ q < n
        /\ Log(r)[p].ev = "step"
        /\ Log(r)[q].ev = "catch" /\ Log(r)[q].i = Log(r)[p].i
        /\ Log(r)[n].ev = "step" /\ Log(r)[n].i = Log(r)[p].i + 1
        /\ Terminal(r)

\* a catch handler of step i handled the failure of step i's own handler and
\* returned the normal value Log(r)[p].v, and a step i + 1 is declared
Recovered(r, p) ==
    /\ Log(r)[p].ev = "catchEnd"
    /\ Log(r)[p].v.k = "val"
    /\ Log(r)[p - 1].v.by = <<"step", Log(r)[p].i, 0>>
    /\ Log(r)[p].i < NSteps(r)
\* the failure e reached the continuation or the caller
Forwarded(r, e) ==
    \/ \E q \in Positions(r) : Log(r)[q].ev = "next" /\ Log(r)[q].args = <<e>>
    \/ reqs[r].st = "rejected" /\ reqs[r].val = e

\* C3 as stated: after step A failed and a catch entry of A returned the
\* normal value v, step B runs next and receives v as its input.
C3_Original ==
    \A r \in Requests : \A p \in Positions(r) :
        (Recovered(r, p) /\ p < Len(Log(r))) =>
            /\ Log(r)[p + 1].ev = "step"
            /\ Log(r)[p].v \in Range(Log(r)[p + 1].args)

\* C3 amended: the failure of A is recovered (never forwarded to the
\* continuation or the caller) and B runs next, exactly once; the handler's
\* return value v reaches only the chain link of B, which tests it for being
\* a Response: B itself is called with (req, res) and does not receive v.
C3_Recovery ==
    \A r \in Requests : \A p \in Positions(r) :
        Recovered(r, p) =>
            /\ ~Forwarded(r, Log(r)[p - 1].v)
            /\ Terminal(r) => p < Len(Log(r))
            /\ p < Len(Log(r)) =>
                  /\ Log(r)[p + 1] = Event("step", Log(r)[p].i + 1, 0,
                                           <<ReqArg, ResArg>>, Log(r)[p].v)
                  /\ Cardinality({q \in Positions(r) :
                        Log(r)[q].ev = "step" /\ Log(r)[q].i = Log(r)[p].i + 1}) = 1

\* steps [A, B]: A threw a TypeError, the catch(TypeError) entry of A returned
\* a value, B ran and the execution completed
C3_Witness ==
    \E r \in Requests : \E p \in Positions(r) :
        /\ Recovered(r, p)
        /\ Log(r)[p - 1].v.cls = "TypeError"
        /\ ~\E l \in CatchLinks(r, Log(r)[p].i) : l.j = Log(r)[p].j /\ l.filter # "TypeError"
        /\ reqs[r].st = "fulfilled"
        /\ \E q \in Positions(r) : Log(r)[q].ev = "stepEnd" /\ Log(r)[q].i = Log(r)[p].i + 1

\* the failure Log(r)[p].v of step i's handler satisfies no filter of step i
Unmatched(r, p) ==
    /\ Log(r)[p].ev = "stepEnd"
    /\ Log(r)[p].v.k = "err"
    /\ \A l \in CatchLinks(r, Log(r)[p].i) : ~InstanceOf(Log(r)[p].v.cls, l.filter)

\* C4: a catch entry is invoked only with failures that satisfy its filter; a
\* failure of a step that satisfies none of the filters of the step's entries
\* is passed on unchanged and no handler of that step is invoked for it.
C4_CatchFilter ==
    \A r \in Requests :
        LET L == reqs[r].log
            n == Len(L)
        IN \A p \in 1..n :
               LET e == L[p]
               IN /\ e.ev = "catch" =>
                        \E l \in CatchLinks(r, e.i) :
                            /\ l.j = e.j
                            /\ InstanceOf(e.args[1].cls, l.filter)
                  /\ Unmatched(r, p) =>
                        /\ \A q \in 1..n :
                              (L[q].ev = "catch" /\ L[q].i = e.i) => L[q].args[1] # e.v
                        /\ p = n => reqs[r].val = e.v
                        /\ p < n =>
                              /\ L[p + 1].ev \in {"catch", "next"}
                              /\ L[p + 1].args[1] = e.v
                              /\ L[p + 1].ev = "catch" => L[p + 1].i > e.i

\* a step with a catch(TypeError) entry threw an Error: the entry was passed
\* by and the continuation received the very same error
C4_Witness ==
    \E r \in Requests : \E p \in Positions(r) :
        /\ Unmatched(r, p)
        /\ CatchLinks(r, Log(r)[p].i) # {}
        /\ Log(r)[p].v.cls = "Error"
        /\ p < Len(Log(r))
        /\ Log(r)[p + 1].ev = "next"

\* C5 as stated: a catch entry of step i is invoked only for failures raised
\* by step i's own handler, never for a failure of an earlier step.
C5_Original ==
    \A r \in Requests : \A p \in Positions(r) :
        Log(r)[p].ev = "catch" =>
            Log(r)[p].args[1].by = <<"step", Log(r)[p].i, 0>>

\* C5 amended: the catch entry j of step i is invoked only for failures
\* raised before it in the chain (by step i's handler, by the Response
\* callback run at step i's link, by an earlier catch handler of step i, or
\* at an earlier step and not intercepted since), never for a failure raised
\* at a later step or by a later catch handler.
C5_CatchScope ==
    \A r \in Requests : \A p \in Positions(r) :
        Log(r)[p].ev = "catch" =>
            Before(Log(r)[p].args[1].by[2], Log(r)[p].args[1].by[3],
                   Log(r)[p].i, Log(r)[p].j)

\* a catch handler of step i was invoked with the failure of an earlier step
C5_Witness ==
    \E r \in Requests : \E p \in Positions(r) :
        /\ Log(r)[p].ev = "catch"
        /\ Log(r)[p].args[1].by[1] = "step"
        /\ Log(r)[p].args[1].by[2] < Log(r)[p].i

\* the first catch entry of step i declared with a handler only, when no
\* entry before it satisfies the failure e (0 when there is none)
DefaultEntry(r, i, e) ==
    LET ds == {l \in CatchLinks(r, i) :
                  /\ l.dflt
                  /\ \A m \in CatchLinks(r, i) :
                        m.j < l.j => ~InstanceOf(e.cls, m.filter)}
    IN IF ds = {} THEN 0
       ELSE (CHOOSE l \in ds : \A m \in ds : l.j <= m.j).j

\* the failure at Log(r)[p] of step i's handler is intercepted by entry j
InterceptedBy(r, p, j) ==
    /\ p = Len(Log(r)) =>
          /\ reqs[r].st = "run"
          /\ reqs[r].pos <= LinkIndex(r, Log(r)[p].i, j)
    /\ p < Len(Log(r)) =>
          Log(r)[p + 1] = Event("catch", Log(r)[p].i, j,
                                <<Log(r)[p].v, ReqArg, ResArg>>, Log(r)[p].v)

\* C6 as stated: a catch declared with a handler only intercepts every
\* failure of its step, whatever value the step threw or rejected with.
C6_Original ==
    \A r \in Requests : \A p \in Positions(r) :
        (/\ Log(r)[p].ev = "stepEnd"
         /\ Log(r)[p].v.k = "err"
         /\ DefaultEntry(r, Log(r)[p].i, Log(r)[p].v) # 0) =>
            InterceptedBy(r, p, DefaultEntry(r, Log(r)[p].i, Log(r)[p].v))

\* C6 amended: a catch declared with a handler only gets the filter Error: it
\* intercepts every failure of its step whose value is an instance of Error,
\* and is never invoked with a value that is not an Error instance.
C6_DefaultFilter ==
    \A r \in Requests :
        LET L == reqs[r].log
        IN \A p \in 1..Len(L) :
               LET e == L[p]
               IN /\ (/\ e.ev = "stepEnd"
                      /\ e.v.k = "err"
                      /\ InstanceOf(e.v.cls, "Error")) =>
                         LET d == DefaultEntry(r, e.i, e.v)
                         IN d # 0 => InterceptedBy(r, p, d)
                  /\ (/\ e.ev = "catch"
                      /\ reqs[r].links[LinkIndex(r, e.i, e.j)].dflt) =>
                         InstanceOf(e.args[1].cls, "Error")

\* a handler-only catch entry was invoked with the Error its step threw
C6_Witness ==
    \E r \in Requests : \E p \in Positions(r) :
        /\ Log(r)[p].ev = "catch"
        /\ reqs[r].links[LinkIndex(r, Log(r)[p].i, Log(r)[p].j)].dflt
        /\ Log(r)[p].args[1].cls = "Error"
        /\ Log(r)[p].args[1].by = <<"step", Log(r)[p].i, 0>>

\* C10: the callable of a route with zero steps fails at once with the
\* RouteError "Route <url> not implemented" and executes no step function.
C10_NotImplemented ==
    \A r \in Requests :
        (reqs[r].st # "idle" /\ Len(route.steps) = 0) =>
            /\ reqs[r].st = "rejected"
            /\ reqs[r].val.k = "err"
            /\ reqs[r].val.cls = "RouteError"
            /\ reqs[r].val.msg = <<"Route", route.url, "not implemented">>
            /\ reqs[r].log = <<>>
            /\ reqs[r].links = <<>>

\* the callable of a route without steps was called
C10_Witness ==
    \E r \in Requests : reqs[r].st # "idle" /\ Len(route.steps) = 0

(***************************************************************************)
(* Properties of the declaration API.                                      *)
(***************************************************************************)
\* steps declared by addStep/step, main or validate
DeclaredSteps(R) ==
    {i \in 1..Len(R.steps) : R.steps[i].fn \in {"user", "validatorMiddleware"}}

\* C7 as stated: catch on a route with no preceding declared step fails with
\* a RouteError and registers no catch entry, whatever the HTTP method and
\* the App's body-parser configuration.
C7_Original ==
    (lastOp = "catch" /\ DeclaredSteps(route) = {}) =>
        (thrown = "RouteError" /\ TotalCatch(route.steps, 1) = 0)

\* C7 amended: catch fails with a RouteError, leaving the route unchanged,
\* exactly when route.steps is empty; otherwise it appends its entry to the
\* last step.  A route without declared steps has an empty steps list if its
\* method is get or options, or as long as no content type was accepted;
\* else its steps list starts with the content-type-parser step, to which
\* catch attaches.
C7_CatchNeedsStep ==
    /\ [][lastOp' = "catch" =>
            IF Len(route.steps) = 0
            THEN thrown' = "RouteError" /\ route' = route
            ELSE /\ thrown' = "none"
                 /\ Len(route'.steps) = Len(route.steps)
                 /\ Len(route'.steps[Len(route.steps)].catch) =
                        Len(route.steps[Len(route.steps)].catch) + 1]_vars
    /\ [](DeclaredSteps(route) = {} =>
            IF route.type \in {"get", "options"} \/ ~route.parser.set
            THEN Len(route.steps) = 0
            ELSE route.steps[1].name = "content-type-parser")

\* catch was refused on a post route: no bodyParser configured, no step
C7_Witness ==
    /\ lastOp = "catch"
    /\ thrown = "RouteError"
    /\ DeclaredSteps(route) = {}
    /\ route.type = "post"

\* C8: no two entries of route.steps have the same name
C8_UniqueNames ==
    \A i, j \in 1..Len(route.steps) :
        i # j => route.steps[i].name # route.steps[j].name

(***************************************************************************)
(* Properties of the App's route registry.                                 *)
(***************************************************************************)
\* C9: every key of app.routes maps to one route whose uid is the key; a
\* route that resolves to a uid already registered is refused with an Error
\* and does not replace the registered route.
C9_UniqueUid ==
    /\ \A k \in DOMAIN app.routes :
          /\ app.routes[k] \in 1..Len(app.created)
          /\ app.created[app.routes[k]].uid = k
    /\ \A n \in 1..Len(app.created) :
          LET uid == app.created[n].uid
              first == CHOOSE m \in 1..n :
                          /\ app.created[m].uid = uid
                          /\ \A l \in 1..n : app.created[l].uid = uid => m <= l
          IN /\ uid \in DOMAIN app.routes
             /\ app.routes[uid] = first
             /\ app.created[n].threw = (IF first < n THEN "Error" ELSE "none")

\* two routes with different names resolved to the same uid: the second
\* declaration threw and the first route is still the registered one
C9_Witness ==
    \E m, n \in 1..Len(app.created) :
        /\ m < n
        /\ n = Len(app.created)
        /\ app.created[m].uid = app.created[n].uid
        /\ app.created[m].name # app.created[n].name
        /\ app.created[n].threw = "Error"
        /\ app.routes[app.created[n].uid] = m

(***************************************************************************)
(* Properties of the hand-over of a failure by the compiled callable.      *)
(***************************************************************************)
\* the execution r ended with the failure e not recovered by a catch handler:
\* the zero-steps failure, or the rejection of the last promise of the chain
Escaped(r, e) ==
    /\ reqs[r].st \in {"fulfilled", "rejected"}
    /\ e.k = "err"
    /\ IF reqs[r].links = <<>>
       THEN e = NotImplemented(route)
       ELSE reqs[r].val = e
\* the calls of the continuation made by execution r
NextCalls(r) == {q \in Positions(r) : Log(r)[q].ev = "next"}

\* C11: every failure that is not recovered by a catch handler, the
\* zero-steps failure included, is handed to the continuation (called with
\* that error) when one was supplied, and otherwise rejects the promise that
\* is returned to the caller.
C11_Forwarding ==
    \A r \in Requests :
        \A e \in {reqs[r].val, NotImplemented(route)} :
            Escaped(r, e) =>
                IF reqs[r].hasNext
                THEN \E q \in NextCalls(r) : Log(r)[q].args = <<e>>
                ELSE reqs[r].st = "rejected" /\ reqs[r].val = e

\* the route terminated the pipeline itself: a handler sent a response, or
\* the callback of a Response ran and the chain was cancelled
Responded(r) == HeadersSent(reqs[r]) \/ reqs[r].st = "cancelled"

\* C12 as stated: with a continuation, it is called exactly once whenever
\* the route does not terminate the pipeline itself, never more than once,
\* and never after a response has been sent.
C12_Original ==
    \A r \in Requests :
        reqs[r].hasNext =>
            /\ Cardinality(NextCalls(r)) <= 1
            /\ (Terminal(r) /\ ~Responded(r)) => Cardinality(NextCalls(r)) = 1
            /\ \A q \in NextCalls(r) :
                  ~\E p \in 1..(q - 1) : Log(r)[p].ev = "send"

\* C12 amended: the continuation is called at most once, as the last thing
\* the execution does, with the failure the chain ended with; it is called
\* exactly when a chain of at least one step ends with a failure that no
\* catch handler recovered, whether or not a response has been sent before.
\* It is not called when the chain completes normally (even if nothing was
\* sent), when a Response cancelled the chain, or for a route without steps.
C12_Continuation ==
    \A r \in Requests :
        /\ Cardinality(NextCalls(r)) <= 1
        /\ ~reqs[r].hasNext => NextCalls(r) = {}
        /\ \A q \in NextCalls(r) :
              /\ q = Len(Log(r))
              /\ Log(r)[q].args = <<reqs[r].val>>
        /\ (reqs[r].hasNext /\ Terminal(r)) =>
              (NextCalls(r) # {} <=>
                  /\ reqs[r].st # "cancelled"
                  /\ reqs[r].links # <<>>
                  /\ reqs[r].val.k = "err")

\* a step sent a response and then failed: the continuation was called with
\* the failure after the response had been sent
C12_Witness ==
    \E r \in Requests : \E q \in NextCalls(r) :
        /\ \E p \in 1..(q - 1) : Log(r)[p].ev = "send" /\ Log(r)[p].j = 0
        /\ Log(r)[q].args[1].k = "err"

(***************************************************************************)
(* Properties of Route.prototype.build at build time.                      *)
(***************************************************************************)
\* C13 as stated: after build() returned, route.steps is not empty and its
\* last step is the no-op step.
C13_Original ==
    (lastOp = "build" /\ thrown = "none") =>
        /\ Len(route.steps) >= 1
        /\ route.steps[Len(route.steps)].name = "noop"

\* C13 amended: build() appends the step named noop exactly when the steps
\* list is not empty and its last step is not named noop; it leaves an empty
\* list empty, leaves a list that ends with a step named noop as it is (so
\* a repeated build() appends nothing), and throws a RouteError when a step
\* named noop exists that is not the last one.  After build() returned on a
\* non-empty list the last step is named noop.
C13_BuildNoop ==
    /\ [][lastOp' = "build" =>
            LET n == Len(route.steps)
            IN IF n = 0 \/ route.steps[n].name = "noop"
               THEN thrown' = "none" /\ route' = route
               ELSE IF \E i \in 1..n : route.steps[i].name = "noop"
               THEN thrown' = "RouteError" /\ route' = route
               ELSE /\ thrown' = "none"
                    /\ route' = [route EXCEPT
                                   !.steps = Append(@, Step("noop", "noop"))]]_vars
    /\ []((lastOp = "build" /\ thrown = "none" /\ Len(route.steps) > 0) =>
            route.steps[Len(route.steps)].name = "noop")

\* build() returned on a route with a declared step: the no-op step was
\* appended behind it
C13_Witness ==
    /\ lastOp = "build"
    /\ thrown = "none"
    /\ Len(route.steps) >= 2
    /\ route.steps[Len(route.steps)].fn = "noop"
    /\ route.steps[Len(route.steps) - 1].fn = "user"

(***************************************************************************)
(* Properties of the errorHandler middleware.                              *)
(***************************************************************************)
\* errorHandler returned and nothing it started is pending
Handled == eh.st = "done"
\* the error reached the `err instanceof RequestError` branch
Classified == eh.st \in {"series", "done"} /\ InstanceOf(eh.err.cls, "RequestError")
\* the responses errorHandler and the listeners put on the wire
Rendered == {n \in 1..Len(eh.wire) : eh.wire[n].by # "step"}
EventNames == {eh.events[n].name : n \in 1..Len(eh.events)}

\* C14: errorHandler called with undefined sets no status, sends nothing,
\* emits no event and calls the continuation exactly once, without an error.
C14_UndefinedError ==
    (eh.st # "idle" /\ eh.input.cls = "undefined") =>
        /\ Handled
        /\ eh.nextCalls = << <<>> >>
        /\ eh.events = <<>>
        /\ eh.status = 0
        /\ Rendered = {}
        /\ eh.headersSent = eh.preSent

\* errorHandler was called with undefined on an App with an 'unknown-error'
\* listener and a user listener of 'error-response'
C14_Witness ==
    /\ Handled
    /\ eh.input.cls = "undefined"
    /\ Len(emitter.unknownError) = 1
    /\ UserListenerCount > 0

\* C15: errorHandler called with null wraps it into a ServiceError that is
\* classified by the RequestError branch: the fault is stamped, an 'error'
\* event carrying the stamped fault is emitted and the status of the
\* response is set to 500; what the listeners send carries that status, and
\* the default listener sends the fault when nothing was sent and no
\* listener failed.
C15_NullError ==
    (eh.st # "idle" /\ eh.input.cls = "null") =>
        /\ Classified
        /\ eh.calls = 2
        /\ eh.err.cls = "ServiceError" /\ eh.err.cause = "null"
        /\ eh.err.origin = eh.routeUID /\ eh.err.uid = eh.UID
        /\ eh.events[1] = [name |-> "error", err |-> eh.err]
        /\ eh.status = 500
        /\ \A n \in Rendered : eh.wire[n].status = 500
        /\ (Handled /\ ~eh.preSent /\ Len(eh.events) = 1) =>
              /\ Cardinality(Rendered) = 1
              /\ \A n \in Rendered : eh.wire[n].body = eh.err

\* null was rendered by the default listener: status 500, the fault as body
C15_Witness ==
    /\ Handled
    /\ eh.input.cls = "null"
    /\ eh.wire = <<[status |-> 500, body |-> eh.err, by |-> "default"]>>

\* C16: a value that is neither undefined, null nor an Error instance is
\* treated as an internal fault: it is notified and a response is rendered.
C16_NonError ==
    (Handled /\ eh.input.cls = "NonError") =>
        /\ "error" \in EventNames
        /\ Rendered # {}

\* C17 as stated: every response of a request whose failure was classified
\* carries the status code of the classified RequestError and a body
\* serialized from it, also when a step had sent a response before failing.
C17_Original ==
    (Handled /\ Classified) =>
        \A n \in 1..Len(eh.wire) :
            /\ eh.wire[n].status = eh.err.code
            /\ eh.wire[n].body = eh.err

\* C17 amended: every response sent by a listener of 'error-response' carries
\* the status code of the classified RequestError and that error as its body,
\* and at most one is sent.  When a step of the route had sent a response
\* before failing, that response stays the response of the request: the
\* handler sets res.statusCode but nothing more goes on the wire.
C17_ErrorResponse ==
    /\ \A n \in Rendered :
          /\ Classified
          /\ eh.wire[n].status = eh.err.code
          /\ eh.wire[n].body = eh.err
    /\ Cardinality(Rendered) <= 1
    /\ Classified => eh.status = eh.err.code
    /\ eh.preSent => (Rendered = {} /\ eh.wire = <<StepResponse>>)

\* a TypeError was coerced into a ServiceError and rendered by the default
\* listener with the status code of the ServiceError
C17_Witness ==
    /\ Handled
    /\ eh.input.cls = "TypeError"
    /\ eh.err.cause = "TypeError"
    /\ eh.wire = <<[status |-> eh.err.code, body |-> eh.err, by |-> "default"]>>
    /\ eh.err.code = ErrorCode("ServiceError")

\* C18 as stated: every error recognised as request-bound, a client error as
\* well as an internal fault, is stamped with origin and request uid exactly
\* once.
C18_Original ==
    Classified =>
        /\ eh.err.stamps = 1
        /\ eh.err.origin = eh.routeUID
        /\ eh.err.uid = eh.UID

\* C18 amended: a classified ServiceError is stamped with req.routeUID and
\* req.UID exactly once per handled failure, however often errorHandler was
\* re-entered (null wrapping, coercion, the 'unknown-error' callback); a
\* RequestError that is no ServiceError is never stamped.
C18_StampOnce ==
    /\ Classified =>
          IF InstanceOf(eh.err.cls, "ServiceError")
          THEN /\ eh.err.stamps = 1
               /\ eh.err.origin = eh.routeUID
               /\ eh.err.uid = eh.UID
               /\ eh.stamped = <<eh.err>>
          ELSE /\ eh.err.stamps = 0
               /\ eh.err.origin = "unset"
               /\ eh.err.uid = "unset"
               /\ eh.stamped = <<>>
    /\ ~Classified => eh.stamped = <<>>

\* a TypeError went through the 'unknown-error' listener, whose callback
\* coerced it: errorHandler ran twice and the fault carries one stamp
C18_Witness ==
    /\ Classified
    /\ eh.calls = 2
    /\ "unknown-error" \in EventNames
    /\ eh.err.cause = "TypeError"
    /\ eh.err.stamps = 1
    /\ eh.err.origin = "getUsers_v1"

\* C19: every failure handed to the error handler is eventually processed
\* and eventually leaves the request with exactly one response on the wire,
\* given that every listener called returns and the 'unknown-error' listener
\* calls back.
C19_AlwaysResponds ==
    (eh.st # "idle" /\ eh.input.cls \notin {"undefined", "null"})
        ~> (Handled /\ Len(eh.wire) = 1)

\* position of the default listener among the listeners of 'error-response'
\* (0 before the tick of $init)
DefaultPos ==
    IF \E n \in 1..Len(emitter.errorResponse) : emitter.errorResponse[n] = "default"
    THEN CHOOSE n \in 1..Len(emitter.errorResponse) :
             emitter.errorResponse[n] = "default"
    ELSE 0
\* the user listeners registered before the default listener
Earlier == {emitter.errorResponse[n] : n \in 1..(DefaultPos - 1)}
\* the series was stopped by a listener that failed
SeriesFailed ==
    \E n \in 1..Len(eh.events) : eh.events[n].err.cause = "listener"

Notifications ==
    {n \in 1..Len(eh.events) :
        eh.events[n].name = "error" /\ eh.events[n].err = eh.err}

CodeOf(d) == IF d.isError THEN d.code ELSE 200
\* the ids of the descriptors declared for a status code, in declaration order
DeclaredFor(R, code) ==
    LET ForCode(d) == CodeOf(d) = code
        ds == SelectSeq(R.declared, ForCode)
    IN [n \in 1..Len(ds) |-> ds[n].id]

\* C22: after any sequence of respondsWith calls the entry of status 200
\* holds at most one schema, the latest one declared for 200, and the entry
\* of every other status holds all the descriptors declared for it, in
\* declaration order.
C22_Registry ==
    LET ok == DeclaredFor(route, 200)
    IN /\ Len(route.responses[200]) <= 1
       /\ route.responses[200] = IF ok = <<>> THEN <<>> ELSE <<ok[Len(ok)]>>
       /\ \A code \in StatusCodes \ {200} :
             route.responses[code] = DeclaredFor(route, code)

\* two schemas were declared for 200 and two descriptors for 400: the entry
\* of 200 holds the second schema only, the entry of 400 holds both
C22_Witness ==
    /\ DeclaredFor(route, 200) = <<"schemaA", "schemaB">>
    /\ route.responses[200] = <<"schemaB">>
    /\ Len(route.responses[400]) = 2
    /\ Len(route.declared) > Len(route.responses[200]) + Len(route.responses[400])
                                 + Len(route.responses[500])

(***************************************************************************)
(* Properties of the content types of a Route.                             *)
(***************************************************************************)
\* a type is accepted by the route
Accepts(R, t) == t \in TypesOf(R.parser.contentTypes)
Listed(R, t) == t \in Range(R.parser.mediaTypes)
AnyLimit == Limits \cup {"none", "config"}

\* C23: on a route whose method carries a body, acceptsContentType(t) then
\* rejectsContentType(t) leaves t outside contentTypes and mediaTypes, a
\* later acceptsContentType(t) restores it, acceptsContentType(t) on an
\* accepted t changes nothing, and contentTypes and mediaTypes list the same
\* types with no duplicates.
C23_ContentTypes ==
    /\ TypesOf(route.parser.contentTypes) = Range(route.parser.mediaTypes)
    /\ Cardinality(Range(route.parser.mediaTypes)) = Len(route.parser.mediaTypes)
    /\ Cardinality(route.parser.contentTypes) = Len(route.parser.mediaTypes)
    /\ route.type \notin {"get", "options"} =>
          \A t \in ContentTypes, o1 \in AnyLimit, o2 \in AnyLimit :
             LET A == acceptsContentType(route, t, o1)
                 B == rejectsContentType(A, t)
                 C == acceptsContentType(B, t, o2)
             IN /\ Accepts(A, t) /\ Listed(A, t)
                /\ ~Accepts(B, t) /\ ~Listed(B, t)
                /\ [type |-> t, limit |-> o2] \in C.parser.contentTypes
                /\ Listed(C, t)
                /\ acceptsContentType(A, t, o2) = A
                /\ Accepts(route, t) => A = route
                /\ \A u \in ContentTypes \ {t} :
                      /\ Accepts(B, u) = Accepts(route, u)
                      /\ Listed(B, u) = Listed(route, u)

\* json, accepted from the App's config, was rejected and accepted again
\* with other options after xml: it is back, listed after xml
C23_Witness ==
    /\ route.type = "post"
    /\ appCfg = <<"json">>
    /\ lastOp = "acceptsContentType"
    /\ route.parser.mediaTypes = <<"xml", "json">>
    /\ [type |-> "json", limit |-> "1mb"] \in route.parser.contentTypes

(***************************************************************************)
(* Properties of the status of the App.                                    *)
(***************************************************************************)
\* the statuses of the calls of a sequence, in call order
StatusesOf(calls) == [n \in 1..Len(calls) |-> calls[n].status]
\* the $setStatus calls made while app.status was not ERROR
CallsBeforeError ==
    LET NotYet(c) == c.at # "error" IN SelectSeq(app.setCalls, NotYet)
\* the $setStatus calls up to the first $setStatus(ERROR) call, that call
\* included
CallsToFirstError ==
    LET calls == app.setCalls
        errs == {n \in 1..Len(calls) : calls[n].status = "error"}
        first == IF errs = {} THEN Len(calls)
                 ELSE CHOOSE n \in errs : \A m \in errs : n <= m
    IN SubSeq(calls, 1, first)
IsPrefix(a, b) == Len(a) <= Len(b) /\ a = SubSeq(b, 1, Len(a))

\* C24 as stated: each $setStatus call made before the status is ERROR
\* results in exactly one 'status-changed' event, the events being emitted in
\* the order of the calls.
C24_Original ==
    app.ticks = <<>> => app.statusEvents = StatusesOf(CallsBeforeError)

\* C24 amended: once the status is ERROR it never changes and no further
\* 'status-changed' event is emitted; a $setStatus call takes effect, with
\* exactly one 'status-changed' event, iff no $setStatus(ERROR) call was made
\* before it, and the events are emitted in the order of the calls.  A call
\* made after a $setStatus(ERROR) call has no effect, even when it is made
\* before the tick of that call has set the status.
C24_StatusLatch ==
    /\ [][app.status = "error" =>
             app'.status = "error" /\ app'.statusEvents = app.statusEvents]_vars
    /\ [](/\ IsPrefix(app.statusEvents, StatusesOf(CallsToFirstError))
          /\ app.ticks = <<>> => app.statusEvents = StatusesOf(CallsToFirstError)
          /\ app.status = IF app.statusEvents = <<>> THEN "null"
                          ELSE app.statusEvents[Len(app.statusEvents)])

\* $setStatus(ERROR) and $setStatus(OK) were called in the same tick: the
\* call for OK was made while the status was not yet ERROR and has no event
C24_Witness ==
    /\ app.ticks = <<>>
    /\ app.status = "error"
    /\ StatusesOf(app.setCalls) = <<"init", "error", "ok">>
    /\ app.setCalls[3].at # "error"
    /\ app.statusEvents = <<"init", "error">>

(***************************************************************************)
(* Properties of two executions of one compiled callable.                  *)
(***************************************************************************)
\* the steps whose function was invoked for request r
StepsRun(r) == {Log(r)[p].i : p \in {q \in Positions(r) : Log(r)[q].ev = "step"}}
\* the steps of request r whose function yielded a Response or failed
StopsAt(r) ==
    {Log(r)[p].i : p \in {q \in Positions(r) :
                            /\ Log(r)[q].ev = "stepEnd"
                            /\ Log(r)[q].v.k \in {"resp", "err"}}}
\* the last step request r has to invoke: the first one of its own that
\* yields a Response or fails, the last declared one otherwise
LastStep(r) ==
    IF StopsAt(r) = {} THEN NSteps(r)
    ELSE CHOOSE i \in StopsAt(r) : \A k \in StopsAt(r) : i <= k
InFlight(r) == reqs[r].st \in {"run", "await"}

\* C25: with two requests in flight on one compiled route, a Response
\* produced in the chain of one request cancels the remaining steps of that
\* request only: a link acting for one request leaves the other request as
\* it is, a request is cancelled only by a Response of its own chain, every
\* request invokes its own steps in order up to the first of its own that
\* yields a Response or fails, and reaches its own terminal state.
C25_Isolation ==
    /\ [][\A r \in Requests :
             reqs'[r] # reqs[r] => \A q \in Requests \ {r} : reqs'[q] = reqs[q]]_vars
    /\ [](\A r \in Requests :
             LET L == reqs[r].log
                 n == Len(L)
             IN /\ reqs[r].st = "cancelled" =>
                      /\ n > 1
                      /\ L[n].ev = "cb"
                      /\ L[n - 1].ev = "stepEnd"
                      /\ L[n - 1].v.k = "resp"
                      /\ L[n].v = L[n - 1].v
                /\ \A p \in 1..n : \A q \in (p + 1)..n :
                      (L[p].ev = "step" /\ L[q].ev = "step") => L[p].i < L[q].i
                /\ StepsRun(r) \subseteq 1..LastStep(r)
                /\ Terminal(r) => StepsRun(r) = 1..LastStep(r)
                /\ (Terminal(r) /\ StopsAt(r) = {} /\ NSteps(r) > 0) =>
                      reqs[r].st = "fulfilled")
    /\ \A r \in {1, 2} : InFlight(r) ~> Terminal(r)

\* one request was cancelled by the Response of its first step while the
\* other one, in flight at the same time, ran both of its steps to the end
C25_Witness ==
    /\ NSteps(1) = 2
    /\ reqs[1].st = "cancelled"
    /\ StepsRun(1) = {1}
    /\ reqs[2].st = "fulfilled"
    /\ StepsRun(2) = {1, 2}
    /\ Log(2)[1].ev = "step"
    /\ reqs[1].val.by = <<"step", 1, 0>>

(***************************************************************************)
(* Properties of the filtered response body.                               *)
(***************************************************************************)
\* the positions in the log of r where res.filter(data).json() rendered
Filtered(r) ==
    {p \in Positions(r) : Log(r)[p].ev = "send" /\ Len(Log(r)[p].args) = 2}
\* the success schema declared on the route
SuccessSchema == SchemaDef(route.responses[200][1])

CatchList(i) == route.steps[i].catch
\* the entries of step i after entry j whose filter the failure e satisfies
LaterMatching(i, j, e) ==
    {k \in (j + 1)..Len(CatchList(i)) : Matches(CatchList(i)[k].filter, e)}

\* C27 as stated: a failure raised by a catch handler of a step is not
\* delivered to the remaining catch entries of the same step.
C27_Original ==
    \A r \in Requests : \A p \in Positions(r) :
        Log(r)[p].ev = "catch" =>
            ~(/\ Log(r)[p].args[1].by[1] = "catch"
              /\ Log(r)[p].args[1].by[2] = Log(r)[p].i)

\* C27 amended: the entries of a step are tried in declaration order and a
\* failure is received by the first entry after the place it was raised
\* whose filter it satisfies, and by no other entry; a failure raised by the
\* handler of entry j of a step is a new rejection of the chain and is
\* delivered to the first of the entries after j of the same step whose
\* filter it satisfies.
C27_CatchChain ==
    \A r \in Requests :
        LET L == reqs[r].log
            n == Len(L)
        IN \A p \in 1..n :
              /\ L[p].ev = "catch" =>
                    LET e == L[p].args[1]
                    IN /\ Matches(CatchList(L[p].i)[L[p].j].filter, e)
                       /\ \A q \in (p + 1)..n :
                             L[q].ev = "catch" => L[q].args[1] # e
                       /\ \A j \in 1..(L[p].j - 1) :
                             Before(e.by[2], e.by[3], L[p].i, j) =>
                                 ~Matches(CatchList(L[p].i)[j].filter, e)
              /\ (L[p].ev = "catchEnd" /\ L[p].v.k = "err") =>
                    LET later == LaterMatching(L[p].i, L[p].j, L[p].v)
                    IN later # {} =>
                          IF p = n
                          THEN reqs[r].st = "run"
                          ELSE L[p + 1] =
                                 Event("catch", L[p].i,
                                       CHOOSE k \in later : \A m \in later : k <= m,
                                       CatchArgs(L[p].v), L[p].v)

\* the handler of the first catch entry of a step failed and the second
\* entry of the same step received that failure
C27_Witness ==
    \E r \in Requests : \E p \in Positions(r) :
        /\ p < Len(Log(r))
        /\ Log(r)[p].ev = "catchEnd"
        /\ Log(r)[p].j = 1
        /\ Log(r)[p].v.k = "err"
        /\ Log(r)[p + 1].ev = "catch"
        /\ Log(r)[p + 1].i = Log(r)[p].i
        /\ Log(r)[p + 1].j = 2
        /\ Log(r)[p + 1].args[1] = Log(r)[p].v

(***************************************************************************)
(* Properties of the series of 'error-response' listeners.                 *)
(***************************************************************************)
\* the length of the wire when listener n of the series was called
WireBefore(n) ==
    IF n = 1 THEN (IF eh.preSent THEN 1 ELSE 0) ELSE eh.ran[n - 1].wire
\* listener n of the series sends a response when it is called
Sends(n) ==
    /\ emitter.errorResponse[n] \in {"send", "default"}
    /\ WireBefore(n) = 0

\* C28: the 'error-response' listeners run one after the other in
\* registration order, each one settled before the next is called; when a
\* listener fails, the listeners registered before it have completed their
\* effects and the listeners registered after it are not run.
C28_Series ==
    LET R == eh.ran
    IN /\ \A n \in 1..Len(R) :
             /\ R[n].idx = n
             /\ n < Len(R) => ~R[n].threw
             /\ R[n].wire = WireBefore(n) + (IF Sends(n) /\ ~R[n].threw THEN 1 ELSE 0)
             /\ Len(eh.wire) >= R[n].wire
             /\ (Sends(n) /\ ~R[n].threw) =>
                   eh.wire[R[n].wire].by =
                       (IF emitter.errorResponse[n] = "default" THEN "default" ELSE "user")
       /\ Len(R) <= Len(emitter.errorResponse)
       /\ R # <<>> => Classified
       /\ eh.st = "series" => (Len(R) = eh.idx - 1 /\ ~SeriesFailed)
       /\ SeriesFailed <=> (R # <<>> /\ R[Len(R)].threw)
       /\ SeriesFailed => Handled
       /\ (Handled /\ Classified /\ ~SeriesFailed) => Len(R) = Len(emitter.errorResponse)

\* of three listeners the first sent its response, the second failed and the
\* third, the default one, was not run
C28_Witness ==
    /\ Handled
    /\ emitter.errorResponse = <<"send", "throw", "default">>
    /\ Len(eh.ran) = 2
    /\ eh.ran[2].threw
    /\ Len(eh.wire) = 1
    /\ eh.wire[1].by = "user"

\* the 'error' events that carry the failure of an 'error-response' listener
Escalations == {n \in 1..Len(eh.events) : eh.events[n].err = ListenerFault}

\* C29: the failure of an 'error-response' listener is escalated exactly
\* once, as a new 'error' event, and is not rendered again: the step in which
\* the listener fails emits that one event, leaves the number of calls of
\* errorHandler, the status and the wire as they are and fulfils the promise
\* errorHandler returned; nothing happens afterwards.
C29_Escalation ==
    /\ [][(SeriesFailed' /\ ~SeriesFailed) =>
             /\ eh'.events = Append(eh.events, [name |-> "error", err |-> ListenerFault])
             /\ eh'.calls = eh.calls
             /\ eh'.status = eh.status
             /\ eh'.wire = eh.wire
             /\ eh'.err = eh.err
             /\ eh'.st = "done"
             /\ eh'.promise = "fulfilled"]_vars
    /\ [][SeriesFailed => eh' = eh]_vars
    /\ [](/\ Cardinality(Escalations) <= 1
          /\ eh.promise # "rejected"
          /\ SeriesFailed <=> Escalations # {})

\* a listener failed while a client error was rendered: one 'error' event,
\* one call of errorHandler, the status of the client error, promise fulfilled
C29_Witness ==
    /\ SeriesFailed
    /\ eh.input.cls = "ValidationError"
    /\ eh.events = <<[name |-> "error", err |-> ListenerFault]>>
    /\ eh.calls = 1
    /\ eh.status = 400
    /\ eh.promise = "fulfilled"

\* C30: an instance of a subclass of Error that is no RequestError is handed
\* to the 'unknown-error' listener when one is registered, and nothing is
\* rendered until it calls back; what it calls back with is rendered as it is
\* when it is a RequestError and as an internal fault built from it
\* otherwise.  With no listener the error is made an internal fault and
\* rendered.  A direct instance of Error is made an internal fault without
\* the listener being consulted.
C30_UnknownError ==
    LET hook == Len(emitter.unknownError) > 0
        unknown == IsUnknownError(eh.input) /\ ~InstanceOf(eh.input.cls, "RequestError")
        delegated == "unknown-error" \in EventNames
    IN /\ eh.st = "hook" =>
             /\ hook /\ unknown
             /\ eh.events = <<[name |-> "unknown-error", err |-> eh.input]>>
             /\ eh.wire = (IF eh.preSent THEN <<StepResponse>> ELSE <<>>)
             /\ eh.status = 0
             /\ eh.ran = <<>>
             /\ eh.handed = <<>>
       /\ delegated <=> (eh.st # "idle" /\ hook /\ unknown)
       /\ (Classified /\ delegated) =>
             /\ Len(eh.handed) = 1
             /\ eh.events[1] = [name |-> "unknown-error", err |-> eh.input]
             /\ IF InstanceOf(eh.handed[1].cls, "RequestError")
                THEN eh.err = (IF IsInternalFault(eh.handed[1])
                               THEN SetStamps(eh, eh.handed[1]) ELSE eh.handed[1])
                ELSE eh.err = SetStamps(eh, buildFrom(eh.handed[1]))
       /\ (Classified /\ unknown /\ ~hook) =>
             /\ eh.err = SetStamps(eh, buildFrom(eh.input))
             /\ eh.handed = <<>>
       /\ (eh.st # "idle" /\ eh.input.cls = "Error") =>
             /\ Classified
             /\ eh.err = SetStamps(eh, buildFrom(eh.input))
             /\ eh.handed = <<>>

\* a TypeError was handed to the listener, which called back with a
\* RequestError: that one was rendered, with its own status and unstamped
C30_Witness ==
    /\ Handled
    /\ eh.input.cls = "TypeError"
    /\ eh.handed = <<Fault("RequestError")>>
    /\ eh.err = Fault("RequestError")
    /\ eh.status = 400
    /\ Len(eh.wire) = 1
    /\ eh.wire[1].body = Fault("RequestError")

(***************************************************************************)
(* Properties of the content-type parsing step.                            *)
(***************************************************************************)
\* the positions of route.steps that hold the content-type parsing step
ParserSteps == {i \in 1..Len(route.steps) : route.steps[i].fn = "reqBodyParser"}

\* C31: a route whose method carries a body has exactly one content-type
\* parsing step once a content type was accepted, and that step is the first
\* step of route.steps whatever the order of the declarations; a get or
\* options route has none.
C31_ParserFirst ==
    IF route.type \in {"get", "options"}
    THEN ParserSteps = {}
    ELSE ParserSteps = (IF route.parser.set THEN {1} ELSE {})

(***************************************************************************)
(* Terminal states of one execution of the compiled callable.              *)
(***************************************************************************)
\* SHORT_CIRCUITED: the chain was cancelled
ShortCircuited(r) == reqs[r].st = "cancelled"
\* FAILED: the continuation was called, or the promise returned is rejected
Failed(r) == reqs[r].st = "rejected" \/ (Terminal(r) /\ NextCalls(r) # {})
\* COMPLETE: the promise returned is fulfilled with what the last link yielded
Complete(r) == reqs[r].st = "fulfilled" /\ NextCalls(r) = {}
\* the Responses execution r yielded whose callback was never invoked
Unprocessed(r) ==
    {p \in Positions(r) :
        /\ IsYield(Log(r)[p])
        /\ Log(r)[p].v.k = "resp"
        /\ CbCount(r, Log(r)[p].v) = 0}

C33_BoundedReentry ==
    LET E == eh.entered
        delegated == "unknown-error" \in EventNames
    IN /\ Len(E) = eh.calls
       /\ eh.st # "idle" => (eh.calls >= 1 /\ E[1] = eh.input)
       /\ \A n \in 2..Len(E) : InstanceOf(E[n].cls, "RequestError")
       /\ ~delegated => (eh.calls <= 2 /\ eh.handed = <<>>)
       /\ delegated => eh.calls = 1 + Len(eh.handed)
       /\ eh.calls = 2 =>
             \/ eh.input.cls = "null" /\ E[2] = NullFault
             \/ ~delegated /\ E[2] = buildFrom(eh.input)
             \/ /\ delegated
                /\ E[2] = (IF InstanceOf(eh.handed[1].cls, "RequestError")
                           THEN eh.handed[1] ELSE buildFrom(eh.handed[1]))
       /\ (eh.st # "idle" /\ eh.input.cls \in {"undefined", "NonError"}) => eh.calls = 1
       /\ (eh.st # "idle" /\ InstanceOf(eh.input.cls, "RequestError")) => eh.calls = 1

\* the listener called back with the TypeError it was given: errorHandler
\* was entered a second time, with the internal fault built from it
C33_Witness ==
    /\ Handled
    /\ eh.input.cls = "TypeError"
    /\ eh.handed = <<eh.input>>
    /\ eh.calls = 2
    /\ eh.entered = <<eh.input, buildFrom(eh.input)>>
====
